---- MODULE Spec2Model ----
(***************************************************************************)
(* A model of swoupon_calc.py: the four entry points _F, calculate_TR,     *)
(* calculate_potential_TI and calculate_TR_and_TI, executed line by line   *)
(* by a caller that calls them in any order with any argument.             *)
(*                                                                         *)
(* The program computes in IEEE-754 binary64 (Python float / np.float64).  *)
(* TLC's integers are 32 bits wide, so a binary64 value is kept here as a  *)
(* sign, a 53-bit significand held in 15-bit limbs, and a binary exponent; *)
(* +, * and / round to nearest, ties to even, as the hardware does, and    *)
(* np.exp and np.power are evaluated in 105-bit fixed point and rounded    *)
(* once to binary64.                                                       *)
(***************************************************************************)
EXTENDS Integers, Sequences, FiniteSets, TLC

(***************************************************************************)
(* Natural numbers of any size: little-endian sequences of limbs in        *)
(* 0..Base-1 with no leading zero limb; zero is the empty sequence.        *)
(***************************************************************************)
LimbBits == 15

Base == 2^LimbBits

Digit(a, i) == IF i <= Len(a) THEN a[i] ELSE 0

RECURSIVE Norm(_)
Norm(a) == IF a = <<>> THEN <<>>
           ELSE IF a[Len(a)] = 0 THEN Norm(SubSeq(a, 1, Len(a) - 1))
           ELSE a

BigOfNat(n) == IF n = 0 THEN <<>>
               ELSE IF n < Base THEN <<n>>
               ELSE IF n < Base * Base THEN <<n % Base, n \div Base>>
               ELSE <<n % Base, (n \div Base) % Base, n \div (Base * Base)>>

MaxOf(x, y) == IF x >= y THEN x ELSE y

RECURSIVE BAddC(_, _, _, _)
BAddC(a, b, i, c) ==
    IF i > MaxOf(Len(a), Len(b))
    THEN (IF c = 0 THEN <<>> ELSE <<c>>)
    ELSE LET s == Digit(a, i) + Digit(b, i) + c
         IN  <<s % Base>> \o BAddC(a, b, i + 1, s \div Base)

BAdd(a, b) == BAddC(a, b, 1, 0)

RECURSIVE BSubC(_, _, _, _)
BSubC(a, b, i, c) ==
    IF i > Len(a) THEN <<>>
    ELSE LET s == a[i] - Digit(b, i) - c
         IN  IF s < 0 THEN <<s + Base>> \o BSubC(a, b, i + 1, 1)
                      ELSE <<s>> \o BSubC(a, b, i + 1, 0)

\* a - b, for a >= b
BSub(a, b) == Norm(BSubC(a, b, 1, 0))

RECURSIVE BCmpAt(_, _, _)
BCmpAt(a, b, i) ==
    IF i = 0 THEN 0
    ELSE IF a[i] < b[i] THEN -1
    ELSE IF a[i] > b[i] THEN 1
    ELSE BCmpAt(a, b, i - 1)

\* -1, 0 or 1 as a < b, a = b, a > b
BCmp(a, b) == IF Len(a) < Len(b) THEN -1
              ELSE IF Len(a) > Len(b) THEN 1
              ELSE BCmpAt(a, b, Len(a))

RECURSIVE BMulSmallC(_, _, _, _)
BMulSmallC(a, k, i, c) ==
    IF i > Len(a) THEN (IF c = 0 THEN <<>> ELSE <<c>>)
    ELSE LET s == a[i] * k + c
         IN  <<s % Base>> \o BMulSmallC(a, k, i + 1, s \div Base)

\* a * k, for 0 <= k < Base
BMulSmall(a, k) == IF k = 0 THEN <<>> ELSE BMulSmallC(a, k, 1, 0)

ShiftLimbs(a, n) == IF a = <<>> THEN <<>> ELSE [i \in 1..n |-> 0] \o a

DropLimbs(a, n) == IF n >= Len(a) THEN <<>> ELSE SubSeq(a, n + 1, Len(a))

RECURSIVE BMulAt(_, _, _)
BMulAt(a, b, j) ==
    IF j > Len(b) THEN <<>>
    ELSE BAdd(BMulSmall(a, b[j]), ShiftLimbs(BMulAt(a, b, j + 1), 1))

BMul(a, b) == IF a = <<>> \/ b = <<>> THEN <<>> ELSE BMulAt(a, b, 1)

RECURSIVE BDivSmallAt(_, _, _, _)
BDivSmallAt(a, k, i, r) ==
    IF i = 0 THEN <<>>
    ELSE LET s == r * Base + a[i]
         IN  BDivSmallAt(a, k, i - 1, s % k) \o <<s \div k>>

\* floor(a / k), for 0 < k <= Base
BDivSmall(a, k) == Norm(BDivSmallAt(a, k, Len(a), 0))

\* a * 2^n
BShl(a, n) == ShiftLimbs(BMulSmall(a, 2^(n % LimbBits)), n \div LimbBits)

\* floor(a / 2^n)
BShr(a, n) == BDivSmall(DropLimbs(a, n \div LimbBits), 2^(n % LimbBits))

RECURSIVE LimbLen(_)
LimbLen(d) == IF d = 0 THEN 0 ELSE 1 + LimbLen(d \div 2)

\* the number of bits of a: 0 for zero
BitLen(a) == IF a = <<>> THEN 0
             ELSE LimbBits * (Len(a) - 1) + LimbLen(a[Len(a)])

Pow2Big(n) == BShl(<<1>>, n)

IsOdd(a) == a # <<>> /\ a[1] % 2 = 1

\* e, once x has been evaluated: TLC passes operator arguments unevaluated, and
\* an accumulator that no iteration reads would only be computed, as one deeply
\* nested expression, after the last one.
Strict(x, e) == IF x = x THEN e ELSE e

\* Schoolbook binary long division: quotient bits i down to lo.
RECURSIVE BDivLoop(_, _, _, _, _)
BDivLoop(rem, b, i, lo, q) ==
    IF i < lo THEN [q |-> q, r |-> rem]
    ELSE LET d == BShl(b, i)
         IN  IF BCmp(d, rem) <= 0
             THEN Strict(q, BDivLoop(BSub(rem, d), b, i - 1, lo, BAdd(q, Pow2Big(i))))
             ELSE Strict(q, BDivLoop(rem, b, i - 1, lo, q))

\* ... one limb of quotient bits at a time, from limb c down
RECURSIVE BDivLimbs(_, _, _)
BDivLimbs(st, b, c) ==
    IF c < 0 THEN st
    ELSE Strict(st, BDivLimbs(BDivLoop(st.r, b, LimbBits * c + LimbBits - 1, LimbBits * c, st.q),
                              b, c - 1))

\* quotient q and remainder r of a by b, for b > 0
BDivMod(a, b) == BDivLimbs([q |-> <<>>, r |-> a], b,
                           MaxOf(BitLen(a) - BitLen(b), 0) \div LimbBits)

(***************************************************************************)
(* IEEE-754 binary64.  A value is [s, m, e]: sign s (1: negative), m the   *)
(* significand as a natural number of exactly MantBits bits, and the value *)
(* is m * 2^e; zero has m = <<>> and e = 0.  The volumes and results of    *)
(* this model stay far from the subnormal and overflow ranges, so the      *)
(* exponent is not clipped.                                                *)
(***************************************************************************)
MantBits == 53

FZero == [s |-> 0, m |-> <<>>, e |-> 0]

IsZero(a) == a.m = <<>>

\* The binary64 nearest to n * 2^e, ties to even, with sign s.
Round(s, n, e) ==
    LET len == BitLen(n)
    IN  IF n = <<>> THEN [s |-> s, m |-> <<>>, e |-> 0]
        ELSE IF len <= MantBits
        THEN [s |-> s, m |-> BShl(n, MantBits - len), e |-> e - (MantBits - len)]
        ELSE LET sh   == len - MantBits
                 q    == BShr(n, sh)
                 rem  == BSub(n, BShl(q, sh))
                 c    == BCmp(rem, Pow2Big(sh - 1))
                 up   == c > 0 \/ (c = 0 /\ IsOdd(q))
                 q2   == IF up THEN BAdd(q, <<1>>) ELSE q
             IN  IF BitLen(q2) > MantBits
                 THEN [s |-> s, m |-> BShr(q2, 1), e |-> e + sh + 1]
                 ELSE [s |-> s, m |-> q2, e |-> e + sh]

\* -1, 0, 1: the order of the magnitudes of a and b
MagCmp(a, b) ==
    IF IsZero(a) THEN (IF IsZero(b) THEN 0 ELSE -1)
    ELSE IF IsZero(b) THEN 1
    ELSE IF a.e < b.e THEN -1
    ELSE IF a.e > b.e THEN 1
    ELSE BCmp(a.m, b.m)

\* -1, 0, 1: the order of a and b (-0.0 == 0.0, as in IEEE-754)
FCmp(a, b) ==
    IF IsZero(a) /\ IsZero(b) THEN 0
    ELSE IF IsZero(a) THEN (IF b.s = 1 THEN 1 ELSE -1)
    ELSE IF IsZero(b) THEN (IF a.s = 1 THEN -1 ELSE 1)
    ELSE IF a.s # b.s THEN (IF a.s = 1 THEN -1 ELSE 1)
    ELSE IF a.s = 1 THEN MagCmp(b, a)
    ELSE MagCmp(a, b)

FLt(a, b) == FCmp(a, b) < 0

FLe(a, b) == FCmp(a, b) <= 0

FEq(a, b) == FCmp(a, b) = 0

FNeg(a) == [a EXCEPT !.s = 1 - a.s]

\* a * b
FMul(a, b) ==
    IF IsZero(a) \/ IsZero(b) THEN [s |-> (a.s + b.s) % 2, m |-> <<>>, e |-> 0]
    ELSE Round((a.s + b.s) % 2, BMul(a.m, b.m), a.e + b.e)

\* a + b
FAdd(a, b) ==
    IF IsZero(a) THEN (IF IsZero(b) /\ a.s # b.s THEN FZero ELSE b)
    ELSE IF IsZero(b) THEN a
    ELSE LET e  == IF a.e <= b.e THEN a.e ELSE b.e
             na == BShl(a.m, a.e - e)
             nb == BShl(b.m, b.e - e)
             c  == BCmp(na, nb)
         IN  IF a.s = b.s THEN Round(a.s, BAdd(na, nb), e)
             ELSE IF c = 0 THEN FZero
             ELSE IF c > 0 THEN Round(a.s, BSub(na, nb), e)
             ELSE Round(b.s, BSub(nb, na), e)

\* The extra quotient bits a division computes beyond the significand: the
\* last one is the sticky bit (set when the remainder is not zero).
GuardBits == MantBits + 3

\* a / b, for b # 0
FDiv(a, b) ==
    IF IsZero(a) THEN [s |-> (a.s + b.s) % 2, m |-> <<>>, e |-> 0]
    ELSE LET d == BDivMod(BShl(a.m, GuardBits), b.m)
             n == BAdd(BShl(d.q, 1), IF d.r = <<>> THEN <<>> ELSE <<1>>)
         IN  Round((a.s + b.s) % 2, n, a.e - b.e - GuardBits - 1)

\* The binary64 of a Python int n, 0 <= n < Base^3, and of a decimal literal
\* num/den (the nearest binary64 to the fraction, as the parser produces).
FromNat(n) == Round(0, BigOfNat(n), 0)

Literal(num, den) == FDiv(FromNat(num), FromNat(den))

(***************************************************************************)
(* np.exp and np.power.  Both are computed in fixed point with FixBits     *)
(* fractional bits (a natural n stands for n / 2^FixBits) and rounded once *)
(* to binary64: the library's results are the correctly rounded ones up to *)
(* its last-place error, which no claim checked here depends on.           *)
(***************************************************************************)
FixLimbs == 7

FixBits == LimbBits * FixLimbs

FixOne == Pow2Big(FixBits)

FixMul(a, b) == DropLimbs(BMul(a, b), FixLimbs)

\* |x| in fixed point, rounded down
FixOfMag(x) ==
    IF IsZero(x) THEN <<>>
    ELSE IF x.e + FixBits >= 0 THEN BShl(x.m, x.e + FixBits)
    ELSE BShr(x.m, -(x.e + FixBits))

\* t + t^3/3 + t^5/5 + ... = atanh(t): u is t^(2j+1), t2 is t^2
RECURSIVE AtanhSum(_, _, _, _)
AtanhSum(u, t2, j, acc) ==
    IF u = <<>> THEN acc
    ELSE Strict(acc, AtanhSum(FixMul(u, t2), t2, j + 1,
                              BAdd(acc, BDivSmall(u, 2 * j + 1))))

Atanh(t) == AtanhSum(t, FixMul(t, t), 0, <<>>)

\* ln 2 = 2 atanh(1/3)
Ln2 == BShl(Atanh(BDivSmall(FixOne, 3)), 1)

\* ln x for a binary64 x >= 1: x = f * 2^k with 1 <= f < 2, and
\* ln f = 2 atanh((f - 1) / (f + 1))
Ln(x) ==
    LET k   == x.e + MantBits - 1
        one == Pow2Big(MantBits - 1)
        t   == BDivMod(BShl(BSub(x.m, one), FixBits), BAdd(x.m, one)).q
    IN  BAdd(BMulSmall(Ln2, k), BShl(Atanh(t), 1))

\* 1 + r + r^2/2! + ... = e^r, for a fixed-point r in [0, ln 2)
RECURSIVE ExpSum(_, _, _, _)
ExpSum(term, r, k, acc) ==
    IF term = <<>> THEN acc
    ELSE Strict(acc, ExpSum(BDivSmall(FixMul(term, r), k), r, k + 1, BAdd(acc, term)))

ExpFix(r) == ExpSum(FixOne, r, 1, <<>>)

SmallOfBig(q) == IF q = <<>> THEN 0 ELSE q[1]

\* e^y for a fixed-point y >= 0, as a binary64: y = n ln 2 + r
ExpPos(y) ==
    LET d == BDivMod(y, Ln2)
    IN  Round(0, ExpFix(d.r), SmallOfBig(d.q) - FixBits)

\* e^(-y) for a fixed-point y >= 0, as a binary64: -y = -n ln 2 + r
ExpNeg(y) ==
    LET d == BDivMod(y, Ln2)
    IN  IF d.r = <<>> THEN Round(0, FixOne, -SmallOfBig(d.q) - FixBits)
        ELSE Round(0, ExpFix(BSub(Ln2, d.r)), -(SmallOfBig(d.q) + 1) - FixBits)

\* e^x
Exp(x) == IF x.s = 1 THEN ExpNeg(FixOfMag(x)) ELSE ExpPos(FixOfMag(x))

\* x^p, for x >= 1 and p >= 0: e^(p ln x)
Power(x, p) ==
    IF IsZero(p) THEN FromNat(1)
    ELSE ExpPos(BShr(BMul(Ln(x), p.m), -p.e))

(***************************************************************************)
(* The module's constants (lines 5-10) and the volumes callers pass.       *)
(***************************************************************************)
C_0_01 == Literal(1, 100)

C_0_02 == Literal(2, 100)

C_NEG_0_00005 == FNeg(Literal(5, 100000))

C_0_1 == Literal(1, 10)

POWER_EXPONENT == Literal(3, 10)

MAX_TI_FRACTION_OF_TR == FDiv(FromNat(1), FromNat(3))

\* the volumes of the module's own test run (line 86)
test_volumes == <<0, 1, 100, 1000, 10000, 50000, 100000, 500000>>

MaxNeg == 2

MaxSmall == 2

\* x moved up by k units in the last place
NextUp(x, k) == [x EXCEPT !.m = BAdd(x.m, BigOfNat(k))]

\* 745.9730518265187, the last binary64 value at which the cap is strictly
\* below the potential reward
CapEdge == [s |-> 0, m |-> <<25008, 7882, 16163, 186>>, e |-> -43]

\* -1, -2, ...
Negative == {FNeg(FromNat(n)) : n \in 1..MaxNeg}

\* 0, 1, ...; the test run's volumes; the volumes on both sides of the point
\* where the cap stops binding (745, 746) and of the point where F reaches
\* C_0_01 (753536, 753537), and one far beyond; 2^-68; and two neighbouring
\* binary64 values just above 25370; and CapEdge with its next value, where
\* the cap equals the potential reward, and the first value where the cap is
\* strictly above it.
NonNegative ==
    {FromNat(n) : n \in 0..MaxSmall}
    \cup {FromNat(test_volumes[i]) : i \in DOMAIN test_volumes}
    \cup {FromNat(745), FromNat(746), FromNat(753536), FromNat(753537), FromNat(1000000)}
    \cup {[s |-> 0, m |-> Pow2Big(MantBits - 1), e |-> -120]}
    \cup {NextUp(FromNat(25370), k) : k \in 4..5}
    \cup {NextUp(CapEdge, k) : k \in {0, 1, 4}}

Volumes == Negative \cup NonNegative

\* np.exp and np.power are pure: their values at the arguments this model
\* reaches are computed once.
ExpMemo == [x \in {FMul(C_NEG_0_00005, v) : v \in NonNegative} |-> Exp(x)]

PowerMemo == [x \in {FAdd(FromNat(1), v) : v \in NonNegative} |-> Power(x, POWER_EXPONENT)]

np_exp(x) == IF x \in DOMAIN ExpMemo THEN ExpMemo[x] ELSE Exp(x)

np_power(x, p) == IF p = POWER_EXPONENT /\ x \in DOMAIN PowerMemo THEN PowerMemo[x]
                  ELSE Power(x, p)

(***************************************************************************)
(* The expressions of the four functions, over the module's globals g.     *)
(***************************************************************************)
\* line 21 with the sign of the exponent lost
F_value_growing(g, v) ==
    FAdd(g.C_0_01, FMul(g.C_0_02, np_exp(FNeg(FMul(g.C_NEG_0_00005, v)))))

\* line 21: C_0_01 + (C_0_02 * np.exp(C_NEG_0_00005 * v))
F_value(g, v) == FAdd(g.C_0_01, FMul(g.C_0_02, np_exp(FMul(g.C_NEG_0_00005, v))))

\* line 36 with the volume left out, and with the volume dividing
TR_value_without_volume(g, f_v, v) == FDiv(f_v, g.C_0_1)

TR_value_divided_by_volume(g, f_v, v) == FDiv(FDiv(f_v, v), g.C_0_1)

\* line 36: f_v * v / C_0_1
TR_value(g, f_v, v) == FDiv(FMul(f_v, v), g.C_0_1)

\* line 48: 1 + v
base_value(v) == FAdd(FromNat(1), v)

\* line 51: np.power(base, POWER_EXPONENT)
pow_value(g, base) == np_power(base, g.POWER_EXPONENT)

\* line 52: pow_val / C_0_1
potential_TI_value(g, pow_val) == FDiv(pow_val, g.C_0_1)

\* line 74 with the fraction left out
ti_upper_bound_whole(g, tr_value) == tr_value

\* line 74: MAX_TI_FRACTION_OF_TR * tr_value
ti_upper_bound_value(g, tr_value) == FMul(g.MAX_TI_FRACTION_OF_TR, tr_value)

\* min taking the larger argument, and max never looking at the second
min_larger(a, b) == IF FLt(b, a) THEN a ELSE b

max_first(a, b) == a

\* Python's min(a, b) and max(a, b): the first argument unless the second is
\* strictly smaller (larger)
min(a, b) == IF FLt(b, a) THEN b ELSE a

max(a, b) == IF FLt(a, b) THEN b ELSE a

(***************************************************************************)
(* The state: the module's globals; the call stack (the running frame is   *)
(* the last one), each frame with its function, the line it is at, and its *)
(* locals; what the running top-level call has done so far; the outcome of *)
(* the last top-level call, until the caller makes the next one; and one   *)
(* earlier outcome the caller has kept.                                    *)
(***************************************************************************)
VARIABLES globals, stack, events, result, kept

vars == <<globals, stack, events, result, kept>>

Functions == {"_F", "calculate_TR", "calculate_potential_TI", "calculate_TR_and_TI"}

None == [none |-> TRUE]

NoCall == [fn |-> "none"]

FirstLine(fn) == CASE fn = "_F" -> 19
                   [] fn = "calculate_TR" -> 28
                   [] fn = "calculate_potential_TI" -> 43
                   [] fn = "calculate_TR_and_TI" -> 64

NewFrame(fn, v) ==
    CASE fn = "_F" -> [fn |-> fn, pc |-> FirstLine(fn), v |-> v]
      [] fn = "calculate_TR" -> [fn |-> fn, pc |-> FirstLine(fn), v |-> v, f_v |-> None]
      [] fn = "calculate_potential_TI" ->
            [fn |-> fn, pc |-> FirstLine(fn), v |-> v, base |-> None, pow_val |-> None]
      [] fn = "calculate_TR_and_TI" ->
            [fn |-> fn, pc |-> FirstLine(fn), v |-> v, tr_value |-> None,
             potential_ti_value |-> None, ti_upper_bound |-> None, ti_value |-> None]

Top == stack[Len(stack)]

At(fn, line) == stack # <<>> /\ Top.fn = fn /\ Top.pc = line

\* the running frame changed to f
SetTop(f) == [stack EXCEPT ![Len(stack)] = f]

\* the frame x resumed with the value val of the call it made: the call's
\* target is the local its line assigns
Resume(x, val) ==
    CASE x.fn = "calculate_TR" /\ x.pc = 35 -> [x EXCEPT !.f_v = val, !.pc = 36]
      [] x.fn = "calculate_TR_and_TI" /\ x.pc = 68 -> [x EXCEPT !.tr_value = val, !.pc = 71]
      [] x.fn = "calculate_TR_and_TI" /\ x.pc = 71 ->
            [x EXCEPT !.potential_ti_value = val, !.pc = 74]

\* the outcome of the top-level call, as its caller sees it
Outcome(kind, val) ==
    [fn |-> stack[1].fn, v |-> stack[1].v, kind |-> kind, val |-> val, events |-> events']

\* a return that also rebinds a module constant to the returned value
Return_rebinding(val, did) ==
    /\ events' = events \o did
    /\ IF Len(stack) = 1
       THEN /\ stack' = <<>>
            /\ result' = Outcome("ok", val)
            /\ globals' = IF stack[1].fn = "_F" THEN [globals EXCEPT !.C_0_01 = val]
                          ELSE globals
       ELSE /\ stack' = [SubSeq(stack, 1, Len(stack) - 1)
                            EXCEPT ![Len(stack) - 1] = Resume(stack[Len(stack) - 1], val)]
            /\ result' = result
            /\ globals' = globals
    /\ UNCHANGED kept

\* return val: the frame is popped, and the value goes to the calling frame
\* or, from the outermost frame, to the caller
Return(val, did) ==
    /\ events' = events \o did
    /\ IF Len(stack) = 1
       THEN /\ stack' = <<>>
            /\ result' = Outcome("ok", val)
       ELSE /\ stack' = [SubSeq(stack, 1, Len(stack) - 1)
                            EXCEPT ![Len(stack) - 1] = Resume(stack[Len(stack) - 1], val)]
            /\ result' = result
    /\ UNCHANGED <<globals, kept>>

\* raise: no frame of the module catches, so the whole stack unwinds
Raise(exc) ==
    /\ events' = events
    /\ stack' = <<>>
    /\ result' = Outcome(exc, None)
    /\ UNCHANGED <<globals, kept>>

\* a statement that only moves on, having done did
Step(f, did) ==
    /\ stack' = SetTop(f)
    /\ events' = events \o did
    /\ UNCHANGED <<globals, result, kept>>

\* a call statement: the callee's frame is pushed
Invoke(fn, v) ==
    /\ stack' = Append(stack, NewFrame(fn, v))
    /\ events' = Append(events, fn)
    /\ UNCHANGED <<globals, result, kept>>

\* The caller calls an entry point with a volume v.
Call(fn, v) ==
    /\ stack = <<>>
    /\ stack' = <<NewFrame(fn, v)>>
    /\ events' = <<>>
    /\ result' = NoCall
    /\ UNCHANGED <<globals, kept>>

\* The caller keeps the outcome of the call that has just returned.
Keep ==
    /\ stack = <<>>
    /\ result # NoCall
    /\ kept' = result
    /\ UNCHANGED <<globals, stack, events, result>>

(***************************************************************************)
(* _F (lines 14-21)                                                        *)
(***************************************************************************)
F_check ==
    /\ At("_F", 19)
    /\ IF FLt(Top.v, FZero) THEN Raise("ValueError") ELSE Step([Top EXCEPT !.pc = 21], <<>>)

F_return ==
    /\ At("_F", 21)
    /\ Return(F_value(globals, Top.v), <<"*", "np.exp", "*", "+">>)

(***************************************************************************)
(* calculate_TR (lines 23-36)                                              *)
(***************************************************************************)
TR_check_negative ==
    /\ At("calculate_TR", 28)
    /\ IF FLt(Top.v, FZero) THEN Raise("ValueError") ELSE Step([Top EXCEPT !.pc = 30], <<>>)

\* lines 30-31 left out, and lines 30-31 moved below the divisor check
TR_check_zero_absent ==
    /\ At("calculate_TR", 30)
    /\ Step([Top EXCEPT !.pc = 32], <<>>)

TR_check_zero_after_divisor ==
    /\ At("calculate_TR", 30)
    /\ IF FEq(globals.C_0_1, FZero) THEN Raise("ZeroDivisionError")
       ELSE IF FEq(Top.v, FZero) THEN Return(FZero, <<>>)
       ELSE Step([Top EXCEPT !.pc = 32], <<>>)

TR_check_zero ==
    /\ At("calculate_TR", 30)
    /\ IF FEq(Top.v, FZero) THEN Return(FZero, <<>>) ELSE Step([Top EXCEPT !.pc = 32], <<>>)

TR_check_divisor ==
    /\ At("calculate_TR", 32)
    /\ IF FEq(globals.C_0_1, FZero) THEN Raise("ZeroDivisionError")
       ELSE Step([Top EXCEPT !.pc = 35], <<>>)

TR_call_F ==
    /\ At("calculate_TR", 35)
    /\ Invoke("_F", Top.v)

TR_return ==
    /\ At("calculate_TR", 36)
    /\ Return(TR_value(globals, Top.f_v, Top.v), <<"*", "/">>)

(***************************************************************************)
(* calculate_potential_TI (lines 38-52)                                    *)
(***************************************************************************)
PTI_check_negative ==
    /\ At("calculate_potential_TI", 43)
    /\ IF FLt(Top.v, FZero) THEN Raise("ValueError") ELSE Step([Top EXCEPT !.pc = 45], <<>>)

PTI_check_divisor ==
    /\ At("calculate_potential_TI", 45)
    /\ IF FEq(globals.C_0_1, FZero) THEN Raise("ZeroDivisionError")
       ELSE Step([Top EXCEPT !.pc = 48], <<>>)

PTI_base ==
    /\ At("calculate_potential_TI", 48)
    /\ Step([Top EXCEPT !.base = base_value(Top.v), !.pc = 51], <<"+">>)

PTI_pow ==
    /\ At("calculate_potential_TI", 51)
    /\ Step([Top EXCEPT !.pow_val = pow_value(globals, Top.base), !.pc = 52], <<"np.power">>)

PTI_return ==
    /\ At("calculate_potential_TI", 52)
    /\ Return(potential_TI_value(globals, Top.pow_val), <<"/">>)

(***************************************************************************)
(* calculate_TR_and_TI (lines 54-82)                                       *)
(***************************************************************************)
\* lines 64-65 left out
TRTI_check_negative_absent ==
    /\ At("calculate_TR_and_TI", 64)
    /\ Step([Top EXCEPT !.pc = 68], <<>>)

TRTI_check_negative ==
    /\ At("calculate_TR_and_TI", 64)
    /\ IF FLt(Top.v, FZero) THEN Raise("ValueError") ELSE Step([Top EXCEPT !.pc = 68], <<>>)

TRTI_call_TR ==
    /\ At("calculate_TR_and_TI", 68)
    /\ Invoke("calculate_TR", Top.v)

TRTI_call_potential_TI ==
    /\ At("calculate_TR_and_TI", 71)
    /\ Invoke("calculate_potential_TI", Top.v)

TRTI_upper_bound ==
    /\ At("calculate_TR_and_TI", 74)
    /\ Step([Top EXCEPT !.ti_upper_bound = ti_upper_bound_value(globals, Top.tr_value),
                        !.pc = 77], <<"*">>)

TRTI_min ==
    /\ At("calculate_TR_and_TI", 77)
    /\ Step([Top EXCEPT !.ti_value = min(Top.potential_ti_value, Top.ti_upper_bound),
                        !.pc = 80], <<"min">>)

TRTI_max ==
    /\ At("calculate_TR_and_TI", 80)
    /\ Step([Top EXCEPT !.ti_value = max(FZero, Top.ti_value), !.pc = 82], <<"max">>)

TRTI_return ==
    /\ At("calculate_TR_and_TI", 82)
    /\ Return([tr |-> Top.tr_value, ti |-> Top.ti_value,
               potential_ti_value |-> Top.potential_ti_value,
               ti_upper_bound |-> Top.ti_upper_bound], <<>>)

(***************************************************************************)
(* The specifications.                                                     *)
(***************************************************************************)
SourceGlobals ==
    [C_0_01 |-> C_0_01, C_0_02 |-> C_0_02, C_NEG_0_00005 |-> C_NEG_0_00005,
     C_0_1 |-> C_0_1, POWER_EXPONENT |-> POWER_EXPONENT,
     MAX_TI_FRACTION_OF_TR |-> MAX_TI_FRACTION_OF_TR]

Init ==
    /\ globals = SourceGlobals
    /\ stack = <<>>
    /\ events = <<>>
    /\ result = NoCall
    /\ kept = NoCall

\* The module loaded with its divisor constant as written, or set to zero.
InitAnyDivisor ==
    /\ globals \in {SourceGlobals, [SourceGlobals EXCEPT !.C_0_1 = FZero]}
    /\ stack = <<>>
    /\ events = <<>>
    /\ result = NoCall
    /\ kept = NoCall

Next ==
    \/ \E fn \in Functions, v \in Volumes : Call(fn, v)
    \/ Keep
    \/ F_check
    \/ F_return
    \/ TR_check_negative
    \/ TR_check_zero
    \/ TR_check_divisor
    \/ TR_call_F
    \/ TR_return
    \/ PTI_check_negative
    \/ PTI_check_divisor
    \/ PTI_base
    \/ PTI_pow
    \/ PTI_return
    \/ TRTI_check_negative
    \/ TRTI_call_TR
    \/ TRTI_call_potential_TI
    \/ TRTI_upper_bound
    \/ TRTI_min
    \/ TRTI_max
    \/ TRTI_return

Spec == Init /\ [][Next]_vars

SpecAnyDivisor == InitAnyDivisor /\ [][Next]_vars

(***************************************************************************)
(* The claims.  A top-level call has returned to the caller when the stack *)
(* is empty and result holds its outcome; kept holds an earlier outcome.   *)
(***************************************************************************)
Evaluated(r) == r.fn = "calculate_TR_and_TI" /\ r.kind = "ok"

NonNeg(v) == ~FLt(v, FZero)

\* v is a whole number
IsInteger(v) ==
    \/ IsZero(v)
    \/ v.e >= 0
    \/ -v.e < MantBits /\ BShl(BShr(v.m, -v.e), -v.e) = v.m

\* C1: for every volume V >= 0, calculate_TR_and_TI(V) returns a pair (TR, TI)
\* with TR >= 0 and 0 <= TI <= TR/3.
C1_RewardWithinCap ==
    (result.fn = "calculate_TR_and_TI" /\ NonNeg(result.v)) =>
        /\ result.kind = "ok"
        /\ FLe(FZero, result.val.tr)
        /\ FLe(FZero, result.val.ti)
        /\ FLe(result.val.ti, FDiv(result.val.tr, FromNat(3)))

\* a positive volume at which the cap binds and the reward is positive
C1_Witness ==
    /\ Evaluated(result)
    /\ FLt(FZero, result.v)
    /\ FLt(FZero, result.val.ti)
    /\ FLt(result.val.ti, result.val.potential_ti_value)

\* C2: for every V < 0 each of the four entry points fails with ValueError,
\* before any arithmetic and before any call to another entry point, and
\* returns no value.
C2_NegativeRejectedFirst ==
    /\ (stack # <<>> /\ FLt(stack[1].v, FZero)) => (Len(stack) = 1 /\ events = <<>>)
    /\ (result # NoCall /\ FLt(result.v, FZero)) =>
          (result.kind = "ValueError" /\ result.val = None /\ result.events = <<>>)

\* two of the entry points have rejected a negative volume
C2_Witness ==
    /\ result.fn = "calculate_TR_and_TI" /\ FLt(result.v, FZero)
    /\ result.kind = "ValueError"
    /\ kept.fn = "calculate_TR" /\ FLt(kept.v, FZero)
    /\ kept.kind = "ValueError"

\* C3: calculate_TR_and_TI(0) returns exactly (0.0, 0.0): calculate_TR(0)
\* returns 0.0 without evaluating the general formula (no call of _F, no
\* multiplication, no division), the cap is 0, and the potential reward
\* 1/C_0_1 > 0 is capped to 0.
C3_ZeroVolume ==
    /\ (result.fn = "calculate_TR" /\ FEq(result.v, FZero)) =>
          (result.kind = "ok" /\ result.val = FZero /\ result.events = <<>>)
    /\ (result.fn = "calculate_TR_and_TI" /\ FEq(result.v, FZero)) =>
          /\ result.kind = "ok"
          /\ result.val.tr = FZero
          /\ result.val.ti = FZero
          /\ result.val.ti_upper_bound = FZero
          /\ result.val.potential_ti_value = FDiv(FromNat(1), C_0_1)
          /\ FLt(FZero, result.val.potential_ti_value)
          /\ result.events = <<"calculate_TR", "calculate_potential_TI", "+", "np.power",
                               "/", "*", "min", "max">>

C3_Witness == Evaluated(result) /\ result.v = FZero

\* C4: for every V >= 0 the pair (TR, TI) of calculate_TR_and_TI(V) agrees with
\* the two sub-computations called on their own: TR = calculate_TR(V), and
\* TI = max(0, min(calculate_potential_TI(V), (1/3) * TR)).
C4_AgreesWithParts ==
    /\ (Evaluated(result) /\ kept.fn = "calculate_TR" /\ kept.v = result.v) =>
          (kept.kind = "ok" /\ result.val.tr = kept.val)
    /\ (Evaluated(result) /\ kept.fn = "calculate_potential_TI" /\ kept.v = result.v) =>
          /\ kept.kind = "ok"
          /\ LET cap  == FMul(MAX_TI_FRACTION_OF_TR, result.val.tr)
                 low  == IF FLt(cap, kept.val) THEN cap ELSE kept.val
             IN  result.val.ti = (IF FLt(FZero, low) THEN low ELSE FZero)

\* the potential reward was computed on its own, then the pair, at one V > 0
C4_Witness ==
    /\ Evaluated(result)
    /\ kept.fn = "calculate_potential_TI" /\ kept.v = result.v
    /\ FLt(FZero, result.v)

\* a volume beyond every volume of the model: the threshold of a cap that
\* changes sides nowhere
Beyond == [s |-> 0, m |-> Pow2Big(MantBits - 1), e |-> 0]

Thresholds == NonNegative \cup {Beyond}

\* C5 as claimed: a threshold V* with TI = TI_pot below it and TI = TR/3 from
\* it on.
C5_UncappedBelowThreshold ==
    (Evaluated(kept) /\ Evaluated(result)) =>
        \E vstar \in Thresholds : \A r \in {kept, result} :
            /\ FLt(r.v, vstar) => r.val.ti = r.val.potential_ti_value
            /\ ~FLt(r.v, vstar) => r.val.ti = r.val.ti_upper_bound

\* C5, amended: a threshold V* with TI = TR/3 (capped) below it and
\* TI = TI_pot (uncapped) from it on.
C5_CappedBelowThreshold ==
    (Evaluated(kept) /\ Evaluated(result)) =>
        \E vstar \in Thresholds : \A r \in {kept, result} :
            /\ FLt(r.v, vstar) => r.val.ti = r.val.ti_upper_bound
            /\ ~FLt(r.v, vstar) => r.val.ti = r.val.potential_ti_value

\* one volume on each side of the threshold
C5_Witness ==
    /\ Evaluated(kept) /\ Evaluated(result)
    /\ FLt(kept.v, result.v)
    /\ FLt(kept.val.ti, kept.val.potential_ti_value)
    /\ FLt(result.val.ti, result.val.ti_upper_bound)

BothTR == /\ kept.fn = "calculate_TR" /\ kept.kind = "ok"
          /\ result.fn = "calculate_TR" /\ result.kind = "ok"

\* C6 as claimed: calculate_TR is non-decreasing on all volumes V >= 0.
C6_CostMonotone ==
    (BothTR /\ FLe(kept.v, result.v)) => FLe(kept.val, result.val)

\* C6, amended: calculate_TR is non-decreasing on the whole-number volumes,
\* V = 0 included.
C6_CostMonotoneOnIntegers ==
    (BothTR /\ IsInteger(kept.v) /\ IsInteger(result.v) /\ FLe(kept.v, result.v)) =>
        FLe(kept.val, result.val)

\* the special-cased volume 0 against a positive whole volume
C6_Witness ==
    /\ BothTR
    /\ kept.v = FZero
    /\ FLt(FZero, result.v) /\ IsInteger(result.v)
    /\ FLt(kept.val, result.val)

\* C7: the outcome of calculate_TR_and_TI(V) depends only on V: whatever calls
\* were made before and between, two calls with the same V have the same
\* outcome, and no step changes the module's constants.
C7_SameVolumeSameOutcome ==
    /\ []((/\ kept.fn = "calculate_TR_and_TI"
           /\ result.fn = "calculate_TR_and_TI"
           /\ kept.v = result.v) => kept = result)
    /\ [][globals' = globals]_vars

\* the same positive volume evaluated twice
C7_Witness ==
    /\ Evaluated(kept) /\ Evaluated(result)
    /\ kept.v = result.v
    /\ FLt(FZero, result.v)

ZeroDivisor == FEq(globals.C_0_1, FZero)

\* C8 as claimed: with C_0_1 zero, calculate_TR(V) fails with
\* ZeroDivisionError for every V >= 0, V = 0 included.
C8_ZeroDivisorAlwaysFails ==
    (ZeroDivisor /\ result.fn = "calculate_TR" /\ NonNeg(result.v)) =>
        result.kind = "ZeroDivisionError"

\* C8, amended: with C_0_1 zero, calculate_TR(V) fails with ZeroDivisionError,
\* before any arithmetic, for every V > 0, and returns 0.0 at V = 0, where
\* the V == 0 return comes before the divisor check.
C8_ZeroDivisorFailsAboveZero ==
    (ZeroDivisor /\ result.fn = "calculate_TR" /\ NonNeg(result.v)) =>
        IF FEq(result.v, FZero)
        THEN result.kind = "ok" /\ result.val = FZero
        ELSE result.kind = "ZeroDivisionError" /\ result.val = None /\ result.events = <<>>

C8_Witness ==
    /\ ZeroDivisor
    /\ result.fn = "calculate_TR" /\ FLt(FZero, result.v)
    /\ result.kind = "ZeroDivisionError"

BothF == /\ kept.fn = "_F" /\ kept.kind = "ok"
         /\ result.fn = "_F" /\ result.kind = "ok"

UpperF == FAdd(C_0_01, C_0_02)

\* C9 as claimed: for V >= 0, C_0_01 < _F(V) <= C_0_01 + C_0_02, with equality
\* only at V = 0, and _F is strictly decreasing.
C9_FactorStrict ==
    /\ (result.fn = "_F" /\ NonNeg(result.v)) =>
          /\ result.kind = "ok"
          /\ FLt(C_0_01, result.val)
          /\ FLe(result.val, UpperF)
          /\ FEq(result.val, UpperF) => FEq(result.v, FZero)
    /\ (BothF /\ FLt(kept.v, result.v)) => FLt(result.val, kept.val)

\* C9, amended: for V >= 0, C_0_01 <= _F(V) <= C_0_01 + C_0_02, with equality
\* to the upper end at V = 0, and _F is non-increasing.
C9_FactorWeak ==
    /\ (result.fn = "_F" /\ NonNeg(result.v)) =>
          /\ result.kind = "ok"
          /\ FLe(C_0_01, result.val)
          /\ FLe(result.val, UpperF)
          /\ FEq(result.v, FZero) => FEq(result.val, UpperF)
    /\ (BothF /\ FLt(kept.v, result.v)) => FLe(result.val, kept.val)

\* a factor strictly above C_0_01, then, at a larger volume, C_0_01 itself
C9_Witness ==
    /\ BothF
    /\ FLt(FZero, kept.v) /\ FLt(kept.v, result.v)
    /\ FLt(C_0_01, kept.val) /\ FLt(kept.val, UpperF)
    /\ FEq(result.val, C_0_01)

Capped(r) == r.val.ti = r.val.ti_upper_bound

\* C10: the volumes at which the cap binds are downward-closed: if
\* calculate_TR_and_TI(V2) is capped, with the potential reward above the cap,
\* then for every V1 <= V2 calculate_TR_and_TI(V1) is capped too, its cap not
\* above its potential reward.
C10_CapDownwardClosed ==
    (Evaluated(kept) /\ Evaluated(result)) =>
        \A r1, r2 \in {kept, result} :
            (/\ FLe(r1.v, r2.v)
             /\ Capped(r2)
             /\ FLt(r2.val.ti_upper_bound, r2.val.potential_ti_value)) =>
                (Capped(r1) /\ FLe(r1.val.ti_upper_bound, r1.val.potential_ti_value))

\* two different volumes, the larger one capped
C10_Witness ==
    /\ Evaluated(kept) /\ Evaluated(result)
    /\ FLt(FZero, kept.v) /\ FLt(kept.v, result.v)
    /\ Capped(result)
    /\ FLt(result.val.ti_upper_bound, result.val.potential_ti_value)

====
